---- MODULE Spec2Model ----
(***************************************************************************)
(* storage_client: a uniform file-storage interface over two S3-compatible *)
(* backends (AWS S3, Cloudflare R2).                                       *)
(*                                                                         *)
(* The model covers                                                        *)
(*   - StorageInterface.__new__ (the per-class singleton registry),        *)
(*   - S3Storage.__init__ / R2Storage.__init__ (credential resolution),    *)
(*   - the six operations of S3BaseStorage and the URL formatters.         *)
(*                                                                         *)
(* Python values: None is the string NoneVal, an attribute that was never  *)
(* assigned is Unset, credentials are opaque strings ("" is the empty      *)
(* string), paths, keys, bucket names and URLs are sequences of            *)
(* one-character strings.                                                  *)
(***************************************************************************)
EXTENDS Integers, Sequences, FiniteSets, TLC

VARIABLES
    environ,    \* os.environ: variable name -> value, NoneVal when not set
    instance,   \* the _instance class attributes: class -> <<>> (None) or <<object id>>
    objs,       \* the heap: object id (index) -> the object's class and attributes
    nclients,   \* number of boto3 clients created so far
    store,      \* the backends' contents: set of [endpoint, bucket, key]
    dirs,       \* local filesystem: existing directories
    files,      \* local filesystem: existing regular files
    last,       \* the most recent call: its arguments and how it ended
    prev        \* the call before it (op, self, sdk, locator, outcome)

vars == <<environ, instance, objs, nclients, store, dirs, files, last, prev>>

----------------------------------------------------------------------------
(* Python values *)

NoneVal == "<None>"
Unset == "<unset>"

\* Python truthiness of an Optional[str]
Truthy(v) == v # NoneVal /\ v # ""

\* Python's `a or b`
PyOr(a, b) == IF Truthy(a) THEN a ELSE b

----------------------------------------------------------------------------
(* Bounds and input domains *)

\* boto3 clients created in one behaviour (each successful __init__ creates one)
MaxClients == 3

\* longest local path / key, in characters
MaxPathLen == 4

\* explicit constructor arguments and environment values
ArgValues == {NoneVal, "", "p"}
EnvValues == {NoneVal, "", "e"}
Regions == {NoneVal, "r"}

EnvVars == {"S3_ACCESS_KEY_ID", "S3_SECRET_ACCESS_KEY",
            "R2_ACCESS_KEY_ID", "R2_SECRET_ACCESS_KEY", "R2_ACCOUNT_ID"}

EmptyEnviron == [v \in EnvVars |-> NoneVal]

----------------------------------------------------------------------------
(* StorageInterface: the class hierarchy and the singleton registry *)

Classes == {"StorageInterface", "S3BaseStorage", "S3Storage", "R2Storage"}

\* method resolution order of each class
MRO(cls) ==
    CASE cls = "S3Storage" -> <<"S3Storage", "S3BaseStorage", "StorageInterface">>
      [] cls = "R2Storage" -> <<"R2Storage", "S3BaseStorage", "StorageInterface">>
      [] cls = "S3BaseStorage" -> <<"S3BaseStorage", "StorageInterface">>
      [] OTHER -> <<"StorageInterface">>

\* reading cls._instance: the first class of the MRO whose own namespace holds it
ClassAttr(reg, cls) ==
    LET mro == MRO(cls)
        i == CHOOSE k \in 1..Len(mro) :
                 /\ mro[k] \in DOMAIN reg
                 /\ \A j \in 1..(k - 1) : mro[j] \notin DOMAIN reg
    IN reg[mro[i]]

\* object.__new__(cls): an object with no attribute yet
NewObject(cls) ==
    [cls |-> cls, access_key |-> Unset, secret_key |-> Unset,
     account_id |-> Unset, client |-> <<>>]

\* (a registry shared by all classes: the attribute written on the base class)
NewTargetShared(cls) == "StorageInterface"

\* the class whose namespace `cls._instance = ...` writes
NewTarget(cls) == cls

\* StorageInterface.__new__(cls): [reg, heap, self] after the call
New(reg, heap, cls) ==
    IF ClassAttr(reg, cls) = <<>>
    THEN [reg |-> (NewTarget(cls) :> <<Len(heap) + 1>>) @@ reg,
          heap |-> Append(heap, NewObject(cls)),
          self |-> Len(heap) + 1]
    ELSE [reg |-> reg, heap |-> heap, self |-> ClassAttr(reg, cls)[1]]

----------------------------------------------------------------------------
(* Credential resolution *)

\* os.environ.get(name)
Getenv(name) == environ[name]

\* (the environment taking precedence over the explicit argument)
ResolveEnvFirst(explicit, name) == PyOr(Getenv(name), explicit)

\* `explicit or os.environ.get(name)`

Resolve(explicit, name) == PyOr(explicit, Getenv(name))

\* the environment variables the `or` expressions read, for the explicit values
\* given: os.environ.get is evaluated only when the left operand is falsy
Lookups(explicits, names) ==
    {names[i] : i \in {j \in 1..Len(names) : ~Truthy(explicits[j])}}

\* missing_params: the parameter names, in order, whose resolved value is falsy
RECURSIVE MissingFrom(_, _, _)
MissingFrom(values, params, i) ==
    IF i > Len(values) THEN <<>>
    ELSE (IF ~Truthy(values[i]) THEN <<params[i]>> ELSE <<>>)
         \o MissingFrom(values, params, i + 1)

\* (only the first missing parameter reported)
MissingFirstOnly(values, params) ==
    LET all == MissingFrom(values, params, 1)
    IN IF all = <<>> THEN <<>> ELSE <<all[1]>>

MissingParams(values, params) == MissingFrom(values, params, 1)

S3Params == <<"access_key", "secret_access_key">>
S3EnvNames == <<"S3_ACCESS_KEY_ID", "S3_SECRET_ACCESS_KEY">>
R2Params == <<"access_key", "secret_access_key", "account_id">>
R2EnvNames == <<"R2_ACCESS_KEY_ID", "R2_SECRET_ACCESS_KEY", "R2_ACCOUNT_ID">>

\* boto3.client('s3', ...): a new client object holding its configuration
Boto3Client(ak, sk, endpoint, region) ==
    [id |-> nclients + 1,
     aws_access_key_id |-> ak,
     aws_secret_access_key |-> sk,
     endpoint_url |-> endpoint,
     region_name |-> IF region = NoneVal THEN "auto" ELSE region]

----------------------------------------------------------------------------
(* Paths: os.path.basename, os.path.dirname, os.makedirs *)

Chars == {"a", "/"}

\* every string of at most n characters
Strings(n) == UNION {[1..k -> Chars] : k \in 0..n}

\* Optional[str] for paths and keys: <<>> is None, <<p>> is the string p
Absent == <<>>
Some(p) == <<p>>
Optional(S) == {Absent} \cup {Some(p) : p \in S}

\* p.rfind('/') + 1: the index after the last slash, 0 when there is none
AfterLastSlash(p) ==
    LET slashes == {i \in 1..Len(p) : p[i] = "/"}
    IN IF slashes = {} THEN 0 ELSE CHOOSE i \in slashes : \A j \in slashes : j <= i

\* s.rstrip('/')
RECURSIVE RStripSlash(_)
RStripSlash(s) ==
    IF s # <<>> /\ s[Len(s)] = "/" THEN RStripSlash(SubSeq(s, 1, Len(s) - 1)) ELSE s

\* (no directory part removed)
BasenameWholePath(p) == p

\* os.path.basename(p): p[i:] with i = p.rfind('/') + 1
Basename(p) == SubSeq(p, AfterLastSlash(p) + 1, Len(p))

\* os.path.dirname(p): p[:i], with trailing slashes stripped unless it is all slashes
Dirname(p) ==
    LET head == SubSeq(p, 1, AfterLastSlash(p))
    IN IF head # <<>> /\ (\E i \in 1..Len(head) : head[i] # "/")
       THEN RStripSlash(head)
       ELSE head

\* the file-system node a path names: whether it is absolute, and its components
RECURSIVE Components(_)
Components(p) ==
    IF p = <<>> THEN <<>>
    ELSE IF p[1] = "/" THEN Components(Tail(p))
    ELSE LET rest == Tail(p)
             nxt == {i \in 1..Len(rest) : rest[i] = "/"}
             cut == IF nxt = {} THEN Len(rest) + 1
                    ELSE CHOOSE i \in nxt : \A j \in nxt : i <= j
         IN <<<<p[1]>> \o SubSeq(rest, 1, cut - 1)>>
            \o Components(SubSeq(rest, cut, Len(rest)))

Node(p) == [abs |-> p # <<>> /\ p[1] = "/", comps |-> Components(p)]

\* the node itself and every ancestor below the root (or the working directory)
Ancestors(node) ==
    {[abs |-> node.abs, comps |-> SubSeq(node.comps, 1, k)] : k \in 1..Len(node.comps)}

\* os.makedirs(directory, exist_ok=True): the directories afterwards; it raises
\* (FileExistsError / NotADirectoryError) when a component is a regular file
MakedirsFails(directory, fs_files) == Ancestors(Node(directory)) \cap fs_files # {}

Makedirs(directory, fs_dirs) == fs_dirs \cup Ancestors(Node(directory))

----------------------------------------------------------------------------
(* Initial states *)

NoCall == [op |-> "none"]

\* what `prev` keeps of a call: for an upload or a delete that returned, the
\* backend and the (bucket, key) the caller named (the returned key when the
\* upload was given none)
Summary(call) ==
    IF call.op \in {"upload_file", "delete_file"} /\ call.outcome = "return"
    THEN [op |-> call.op, endpoint |-> call.endpoint, bucket |-> call.bucket,
          key |-> IF call.op = "delete_file" THEN call.key
                  ELSE IF call.key_arg # <<>> THEN call.key_arg[1]
                  ELSE call.result[1]]
    ELSE [op |-> "other"]

\* a fresh process: nothing constructed, empty backends, empty working directory
InitFresh(envs) ==
    /\ environ \in envs
    /\ instance = [c \in {"StorageInterface"} |-> <<>>]
    /\ objs = <<>>
    /\ nclients = 0
    /\ store = {}
    /\ dirs = {}
    /\ files = {}
    /\ last = NoCall
    /\ prev = Summary(NoCall)

\* the state after construction: S3Storage("p", "p") and then
\* R2Storage("p", "p", "p") have returned in a fresh process
Init ==
    /\ environ = EmptyEnviron
    /\ instance = [c \in {"StorageInterface", "S3Storage", "R2Storage"} |->
                      CASE c = "S3Storage" -> <<1>>
                        [] c = "R2Storage" -> <<2>>
                        [] OTHER -> <<>>]
    /\ objs = << [cls |-> "S3Storage", access_key |-> "p", secret_key |-> "p",
                  account_id |-> Unset,
                  client |-> <<[id |-> 1, aws_access_key_id |-> "p",
                                aws_secret_access_key |-> "p",
                                endpoint_url |-> <<>>, region_name |-> "auto"]>>],
                 [cls |-> "R2Storage", access_key |-> "p", secret_key |-> "p",
                  account_id |-> "p",
                  client |-> <<[id |-> 2, aws_access_key_id |-> "p",
                                aws_secret_access_key |-> "p",
                                endpoint_url |-> <<"https://", "p",
                                                   ".r2.cloudflarestorage.com">>,
                                region_name |-> "auto"]>>] >>
    /\ nclients = 2
    /\ store = {}
    /\ dirs = {}
    /\ files = {}
    /\ last = NoCall
    /\ prev = Summary(NoCall)

----------------------------------------------------------------------------
(* Constructors *)

\* S3Storage(access_key, secret_access_key, region)
S3StorageInit(access_key, secret_access_key, region) ==
    LET cls == "S3Storage"
        n == New(instance, objs, cls)
        self == n.self
        ak == Resolve(access_key, S3EnvNames[1])
        sk == Resolve(secret_access_key, S3EnvNames[2])
        heap == [n.heap EXCEPT ![self].access_key = ak, ![self].secret_key = sk]
        missing_params == MissingParams(<<ak, sk>>, S3Params)
        client == Boto3Client(ak, sk, <<>>, region)
        call == [op |-> "__init__", cls |-> cls, self |-> self,
                 explicit |-> <<access_key, secret_access_key>>, region |-> region,
                 lookups |-> Lookups(<<access_key, secret_access_key>>, S3EnvNames)]
    IN /\ instance' = n.reg
       /\ IF missing_params # <<>>
          THEN /\ objs' = heap
               /\ nclients' = nclients
               /\ last' = call @@ [outcome |-> "ValueError",
                                   missing |-> missing_params]
          ELSE /\ objs' = [heap EXCEPT ![self].client = <<client>>]
               /\ nclients' = nclients + 1
               /\ last' = call @@ [outcome |-> "return", missing |-> <<>>]
       /\ prev' = Summary(last)
       /\ UNCHANGED <<environ, store, dirs, files>>

\* R2Storage(access_key, secret_access_key, account_id, region)
R2StorageInit(access_key, secret_access_key, account_id, region) ==
    LET cls == "R2Storage"
        n == New(instance, objs, cls)
        self == n.self
        ak == Resolve(access_key, R2EnvNames[1])
        sk == Resolve(secret_access_key, R2EnvNames[2])
        acc == Resolve(account_id, R2EnvNames[3])
        heap == [n.heap EXCEPT ![self].access_key = ak, ![self].secret_key = sk,
                               ![self].account_id = acc]
        missing_params == MissingParams(<<ak, sk, acc>>, R2Params)
        client == Boto3Client(ak, sk,
                              <<"https://", acc, ".r2.cloudflarestorage.com">>, region)
        call == [op |-> "__init__", cls |-> cls, self |-> self,
                 explicit |-> <<access_key, secret_access_key, account_id>>,
                 region |-> region,
                 lookups |-> Lookups(<<access_key, secret_access_key, account_id>>,
                                     R2EnvNames)]
    IN /\ instance' = n.reg
       /\ IF missing_params # <<>>
          THEN /\ objs' = heap
               /\ nclients' = nclients
               /\ last' = call @@ [outcome |-> "ValueError",
                                   missing |-> missing_params]
          ELSE /\ objs' = [heap EXCEPT ![self].client = <<client>>]
               /\ nclients' = nclients + 1
               /\ last' = call @@ [outcome |-> "return", missing |-> <<>>]
       /\ prev' = Summary(last)
       /\ UNCHANGED <<environ, store, dirs, files>>

----------------------------------------------------------------------------
(* The SDK client and the backend behind it.                               *)
(*                                                                         *)
(* Each call of a client method ends in one of three ways, chosen by the   *)
(* environment: "ok" (the request reaches the backend, which answers from  *)
(* its contents), "ClientError" (the backend answers with an error         *)
(* response: access denied, internal error, ...), "OtherError" (a failure  *)
(* the SDK raises as something else than botocore's ClientError: no        *)
(* connection, a failed transfer, an unreadable local file).               *)

SdkOutcomes == {"ok", "ClientError", "OtherError"}

Object(endpoint, bucket, key) == [endpoint |-> endpoint, bucket |-> bucket, key |-> key]

\* the endpoint self.client talks to
EndpointOf(self) == objs[self].client[1].endpoint_url

\* client.head_object(Bucket, Key): a missing object is a 404 ClientError
HeadObject(self, bucket, key, sdk) ==
    IF sdk # "ok" THEN sdk
    ELSE IF Object(EndpointOf(self), bucket, key) \in store THEN "ok"
    ELSE "ClientError"

\* client.download_file(Bucket, Key, Filename): a missing object is a 404
\* ClientError; a destination that cannot be written is an OSError
ClientDownload(self, bucket, key, dest, fs_dirs, sdk) ==
    IF sdk # "ok" THEN sdk
    ELSE IF Object(EndpointOf(self), bucket, key) \notin store THEN "ClientError"
    ELSE IF Node(dest).comps = <<>> \/ Node(dest) \in fs_dirs THEN "OtherError"
    ELSE "ok"

\* the `except ClientError` clauses: which failures of the SDK call are handled
Handled(exc) == exc = "ClientError"

\* try: ... except ClientError as e: raise Exception(f"<prefix>{str(e)}")
Reraise(exc, prefix) ==
    IF Handled(exc)
    THEN [outcome |-> "Exception", message |-> prefix]
    ELSE [outcome |-> exc, message |-> ""]

Returns == [outcome |-> "return", message |-> ""]

----------------------------------------------------------------------------
(* URL formatters *)

\* S3Storage._get_storage_url
S3StorageUrl(bucket_name, fpath_in_bucket) ==
    <<"s", "3", ":", "/", "/">> \o bucket_name \o <<"/">> \o fpath_in_bucket

\* R2Storage._get_storage_url
R2StorageUrl(bucket_name, fpath_in_bucket) ==
    <<"r", "2", ":", "/", "/">> \o bucket_name \o <<"/">> \o fpath_in_bucket

\* self._get_storage_url(...): dispatch on the class of self
GetStorageUrl(cls, bucket_name, fpath_in_bucket) ==
    CASE cls = "S3Storage" -> S3StorageUrl(bucket_name, fpath_in_bucket)
      [] cls = "R2Storage" -> R2StorageUrl(bucket_name, fpath_in_bucket)
      [] OTHER -> <<"NotImplementedError">>

----------------------------------------------------------------------------
(* The six operations of S3BaseStorage *)

\* objects whose __init__ has completed at least once: they hold a client
Clients == {o \in 1..Len(objs) : objs[o].client # <<>>}

\* upload_file: the key the object is stored under
UploadKey(local_fpath, fpath_in_bucket) ==
    IF fpath_in_bucket = Absent THEN Basename(local_fpath) ELSE fpath_in_bucket[1]

\* download_file: the local destination
DownloadDest(fpath_in_bucket, local_fpath) ==
    IF local_fpath = Absent THEN Basename(fpath_in_bucket) ELSE local_fpath[1]

\* list_files: the keys of the bucket, restricted to a truthy prefix
IsPrefix(pre, key) == Len(pre) <= Len(key) /\ SubSeq(key, 1, Len(pre)) = pre

Listing(self, bucket_name, prefix) ==
    {o.key : o \in {x \in store :
        /\ x.endpoint = EndpointOf(self)
        /\ x.bucket = bucket_name
        /\ (prefix # Absent /\ prefix[1] # <<>>) => IsPrefix(prefix[1], x.key)}}

UploadFile(self, local_fpath, bucket_name, fpath_in_bucket, sdk) ==
    LET key == UploadKey(local_fpath, fpath_in_bucket)
        call == [op |-> "upload_file", self |-> self, cls |-> objs[self].cls,
                 local |-> local_fpath, bucket |-> bucket_name,
                 key_arg |-> fpath_in_bucket, sdk |-> sdk, response |-> sdk,
                 endpoint |-> EndpointOf(self)]
    IN /\ self \in Clients
       /\ IF sdk = "ok"
          THEN /\ store' = store \cup {Object(EndpointOf(self), bucket_name, key)}
               /\ last' = call @@ Returns @@
                          [result |-> <<key, GetStorageUrl(objs[self].cls,
                                                           bucket_name, key)>>]
          ELSE /\ store' = store
               /\ last' = call @@ Reraise(sdk, "Upload failed: ")
       /\ prev' = Summary(last)
       /\ UNCHANGED <<environ, instance, objs, nclients, dirs, files>>

DownloadFile(self, bucket_name, fpath_in_bucket, local_fpath, sdk) ==
    LET dest == DownloadDest(fpath_in_bucket, local_fpath)
        directory == Dirname(dest)
        call == [op |-> "download_file", self |-> self, cls |-> objs[self].cls,
                 bucket |-> bucket_name, key |-> fpath_in_bucket,
                 local |-> local_fpath, sdk |-> sdk, endpoint |-> EndpointOf(self)]
        dirs1 == IF directory # <<>> THEN Makedirs(directory, dirs) ELSE dirs
        res == ClientDownload(self, bucket_name, fpath_in_bucket, dest, dirs1, sdk)
    IN /\ self \in Clients
       /\ IF directory # <<>> /\ MakedirsFails(directory, files)
          THEN /\ dirs' = dirs
               /\ files' = files
               /\ last' = call @@ [response |-> "none", outcome |-> "OSError",
                                   message |-> ""]
          ELSE /\ dirs' = dirs1
               /\ IF res = "ok"
                  THEN /\ files' = files \cup {Node(dest)}
                       /\ last' = call @@ [response |-> res] @@ Returns @@
                                  [result |-> dest]
                  ELSE /\ files' = files
                       /\ last' = call @@ [response |-> res] @@
                                  Reraise(res, "Download failed: ")
       /\ prev' = Summary(last)
       /\ UNCHANGED <<environ, instance, objs, nclients, store>>

ListFiles(self, bucket_name, prefix, sdk) ==
    LET call == [op |-> "list_files", self |-> self, cls |-> objs[self].cls,
                 bucket |-> bucket_name, prefix |-> prefix, sdk |-> sdk,
                 response |-> sdk, endpoint |-> EndpointOf(self)]
    IN /\ self \in Clients
       /\ last' = IF sdk = "ok"
                  THEN call @@ Returns @@ [result |-> Listing(self, bucket_name, prefix)]
                  ELSE call @@ Reraise(sdk, "Listing failed: ")
       /\ prev' = Summary(last)
       /\ UNCHANGED <<environ, instance, objs, nclients, store, dirs, files>>

DeleteFile(self, bucket_name, fpath_in_bucket, sdk) ==
    LET call == [op |-> "delete_file", self |-> self, cls |-> objs[self].cls,
                 bucket |-> bucket_name, key |-> fpath_in_bucket, sdk |-> sdk,
                 response |-> sdk, endpoint |-> EndpointOf(self)]
    IN /\ self \in Clients
       /\ IF sdk = "ok"
          THEN /\ store' = store \ {Object(EndpointOf(self), bucket_name, fpath_in_bucket)}
               /\ last' = call @@ Returns @@ [result |-> TRUE]
          ELSE /\ store' = store
               /\ last' = call @@ Reraise(sdk, "Deletion failed: ")
       /\ prev' = Summary(last)
       /\ UNCHANGED <<environ, instance, objs, nclients, dirs, files>>

\* (every outcome of head_object reported as absent)
ExistsAlwaysFalse(res) == [outcome |-> "return", message |-> "", result |-> FALSE]

\* file_exists: what the call does with the outcome of head_object

ExistsResult(res) ==
    IF res = "ok" THEN Returns @@ [result |-> TRUE]
    ELSE IF Handled(res) THEN Returns @@ [result |-> FALSE]
    ELSE [outcome |-> res, message |-> ""]

FileExists(self, bucket_name, fpath_in_bucket, sdk) ==
    LET call == [op |-> "file_exists", self |-> self, cls |-> objs[self].cls,
                 bucket |-> bucket_name, key |-> fpath_in_bucket, sdk |-> sdk,
                 endpoint |-> EndpointOf(self)]
        res == HeadObject(self, bucket_name, fpath_in_bucket, sdk)
    IN /\ self \in Clients
       /\ last' = call @@ [response |-> res] @@ ExistsResult(res)
       /\ prev' = Summary(last)
       /\ UNCHANGED <<environ, instance, objs, nclients, store, dirs, files>>

GetFileMetadata(self, bucket_name, fpath_in_bucket, sdk) ==
    LET call == [op |-> "get_file_metadata", self |-> self, cls |-> objs[self].cls,
                 bucket |-> bucket_name, key |-> fpath_in_bucket, sdk |-> sdk,
                 endpoint |-> EndpointOf(self)]
        res == HeadObject(self, bucket_name, fpath_in_bucket, sdk)
    IN /\ self \in Clients
       /\ last' = IF res = "ok"
                  THEN call @@ [response |-> res] @@ Returns @@
                       [result |-> [content_length |-> "ContentLength",
                                    content_type |-> "ContentType",
                                    last_modified |-> "LastModified",
                                    metadata |-> "Metadata"]]
                  ELSE call @@ [response |-> res] @@
                       Reraise(res, "Failed to get metadata: ")
       /\ prev' = Summary(last)
       /\ UNCHANGED <<environ, instance, objs, nclients, store, dirs, files>>

----------------------------------------------------------------------------
(* The program after construction: storage operations in any order, on     *)
(* either client                                                           *)

Buckets == {<<"b">>}
OpPaths == {<<"a">>, <<"a", "/", "a">>}
Objects == 1..2

CallUploadFile ==
    \E self \in Objects, l \in OpPaths, b \in Buckets, k \in Optional(OpPaths),
       sdk \in SdkOutcomes : UploadFile(self, l, b, k, sdk)

CallDownloadFile ==
    \E self \in Objects, b \in Buckets, k \in OpPaths, l \in Optional(OpPaths),
       sdk \in SdkOutcomes : DownloadFile(self, b, k, l, sdk)

CallListFiles ==
    \E self \in Objects, b \in Buckets, pre \in Optional({<<>>, <<"a", "/">>}),
       sdk \in SdkOutcomes : ListFiles(self, b, pre, sdk)

CallDeleteFile ==
    \E self \in Objects, b \in Buckets, k \in OpPaths, sdk \in SdkOutcomes :
        DeleteFile(self, b, k, sdk)

CallFileExists ==
    \E self \in Objects, b \in Buckets, k \in OpPaths, sdk \in SdkOutcomes :
        FileExists(self, b, k, sdk)

CallGetFileMetadata ==
    \E self \in Objects, b \in Buckets, k \in OpPaths, sdk \in SdkOutcomes :
        GetFileMetadata(self, b, k, sdk)

Next ==
    \/ CallUploadFile
    \/ CallDownloadFile
    \/ CallListFiles
    \/ CallDeleteFile
    \/ CallFileExists
    \/ CallGetFileMetadata

Spec == Init /\ [][Next]_vars

----------------------------------------------------------------------------
(* One upload on either client, over every local path and every key of at  *)
(* most MaxPathLen characters                                              *)

UploadOnce ==
    /\ last = NoCall
    /\ \E self \in Objects, l \in Strings(MaxPathLen), b \in Buckets,
          k \in Optional(Strings(MaxPathLen)), sdk \in SdkOutcomes :
           UploadFile(self, l, b, k, sdk)

SpecUpload == Init /\ [][UploadOnce]_vars

----------------------------------------------------------------------------
(* Construction: constructor calls on both classes in any order, with or   *)
(* without each argument, in a fresh process whose environment holds       *)
(* either none or all of the variables                                     *)

CtorArgs == {NoneVal, "p"}

FullEnviron == [v \in EnvVars |-> "e"]

InitCtor == InitFresh({EmptyEnviron, FullEnviron})

NewS3Storage ==
    /\ nclients < MaxClients
    /\ \E a \in CtorArgs, s \in CtorArgs : S3StorageInit(a, s, NoneVal)

NewR2Storage ==
    /\ nclients < MaxClients
    /\ \E a \in CtorArgs, s \in CtorArgs, acc \in CtorArgs :
           R2StorageInit(a, s, acc, NoneVal)

NextCtor == NewS3Storage \/ NewR2Storage

SpecCtor == InitCtor /\ [][NextCtor]_vars

----------------------------------------------------------------------------
(* One constructor call in a fresh process, over every combination of      *)
(* explicit arguments and environment values                               *)

InitCred == InitFresh([EnvVars -> EnvValues])

ConstructS3 ==
    /\ last = NoCall
    /\ \E a \in ArgValues, s \in ArgValues, r \in Regions : S3StorageInit(a, s, r)

ConstructR2 ==
    /\ last = NoCall
    /\ \E a \in ArgValues, s \in ArgValues, acc \in ArgValues, r \in Regions :
           R2StorageInit(a, s, acc, r)

NextCred == ConstructS3 \/ ConstructR2

SpecCred == InitCred /\ [][NextCred]_vars

----------------------------------------------------------------------------
(* Claims about credential resolution (checked under SpecCred) *)

Range(seq) == {seq[i] : i \in 1..Len(seq)}

ParamsOf(cls) == IF cls = "S3Storage" THEN S3Params ELSE R2Params
EnvNamesOf(cls) == IF cls = "S3Storage" THEN S3EnvNames ELSE R2EnvNames

\* the credential attributes of the object the last constructor call ran on
ResolvedOf(call) ==
    IF call.cls = "S3Storage"
    THEN <<objs[call.self].access_key, objs[call.self].secret_key>>
    ELSE <<objs[call.self].access_key, objs[call.self].secret_key,
           objs[call.self].account_id>>

\* the required parameters for which neither the explicit argument nor the
\* environment variable of the last constructor call holds a non-empty string
NotProvided(call) ==
    {ParamsOf(call.cls)[i] : i \in
        {j \in 1..Len(ParamsOf(call.cls)) :
            /\ call.explicit[j] \in {NoneVal, ""}
            /\ environ[EnvNamesOf(call.cls)[j]] \in {NoneVal, ""}}}

\* C1: a constructor call fails with the missing-parameters error exactly when
\* at least one required field has no non-empty value from either source, and
\* the error then names exactly those fields; otherwise the call returns.
C1_MissingFieldsReported ==
    last.op = "__init__" =>
        /\ (last.outcome = "ValueError") <=> (NotProvided(last) # {})
        /\ last.outcome \in {"ValueError", "return"}
        /\ Range(last.missing) = NotProvided(last)
        /\ Len(last.missing) = Cardinality(NotProvided(last))

\* an R2Storage call that failed naming two of its three fields
C1_Witness ==
    /\ last.op = "__init__"
    /\ last.cls = "R2Storage"
    /\ last.outcome = "ValueError"
    /\ last.missing = <<"secret_access_key", "account_id">>
    /\ last.explicit[1] = "p"

\* C8 as stated: an explicit argument that was passed (anything but None) is
\* the resolved value and its environment variable is not read; the variable
\* is read only when no argument was passed; the field is missing only when
\* neither source provides a value.
C8_AsStated ==
    last.op = "__init__" =>
        \A i \in 1..Len(last.explicit) :
            LET name == EnvNamesOf(last.cls)[i] IN
            /\ last.explicit[i] # NoneVal =>
                   /\ ResolvedOf(last)[i] = last.explicit[i]
                   /\ name \notin last.lookups
            /\ last.explicit[i] = NoneVal =>
                   /\ name \in last.lookups
                   /\ ResolvedOf(last)[i] = environ[name]

\* C8 amended: a non-empty explicit argument is the resolved value whatever the
\* environment holds, and its variable is not read; with an absent or empty
\* argument the variable is read and its value (None when unset) is the
\* resolved value; the field is reported missing exactly when neither source
\* holds a non-empty string.
C8_ResolutionOrder ==
    last.op = "__init__" =>
        \A i \in 1..Len(last.explicit) :
            LET name == EnvNamesOf(last.cls)[i] IN
            /\ last.explicit[i] \notin {NoneVal, ""} =>
                   /\ ResolvedOf(last)[i] = last.explicit[i]
                   /\ name \notin last.lookups
            /\ last.explicit[i] \in {NoneVal, ""} =>
                   /\ name \in last.lookups
                   /\ ResolvedOf(last)[i] = environ[name]
            /\ (ParamsOf(last.cls)[i] \in Range(last.missing)) <=>
                   /\ last.explicit[i] \in {NoneVal, ""}
                   /\ environ[name] \in {NoneVal, ""}

\* both sources hold a value for a field and the explicit one was taken
C8_Witness ==
    /\ last.op = "__init__"
    /\ last.cls = "R2Storage"
    /\ last.explicit[3] = "p"
    /\ environ["R2_ACCOUNT_ID"] = "e"
    /\ objs[last.self].account_id = "p"
    /\ last.explicit[1] = ""
    /\ objs[last.self].access_key = "e"

----------------------------------------------------------------------------
(* Claims about construction (checked under SpecCtor) *)

ConcreteClasses == {"S3Storage", "R2Storage"}

InstancesOf(cls) == {o \in 1..Len(objs) : objs[o].cls = cls}

\* C2 as stated: once an object holds a client (a constructor call on it has
\* returned), no later step changes its access key, secret key, account id or
\* client.
\* (A re-created client with the same configuration is not counted as a change.)
Configuration(client) ==
    [aws_access_key_id |-> client.aws_access_key_id,
     aws_secret_access_key |-> client.aws_secret_access_key,
     endpoint_url |-> client.endpoint_url,
     region_name |-> client.region_name]

C2_AsStated ==
    [][\A o \in 1..Len(objs) :
          objs[o].client # <<>> =>
              /\ objs'[o].access_key = objs[o].access_key
              /\ objs'[o].secret_key = objs[o].secret_key
              /\ objs'[o].account_id = objs[o].account_id
              /\ objs'[o].client # <<>>
              /\ Configuration(objs'[o].client[1]) = Configuration(objs[o].client[1])]_vars

\* C3: at most one object of each concrete class is ever created; a
\* constructor call that returns hands out an object of the class that was
\* called, which is the one registered for that class; the objects registered
\* for S3Storage and R2Storage are distinct.
C3_SingletonPerType ==
    /\ \A c \in ConcreteClasses : Cardinality(InstancesOf(c)) <= 1
    /\ (last.op = "__init__" /\ last.outcome = "return") =>
           /\ objs[last.self].cls = last.cls
           /\ ClassAttr(instance, last.cls) = <<last.self>>
    /\ \A c \in ConcreteClasses :
           c \in DOMAIN instance => instance[c] # <<>> /\ InstancesOf(c) = {instance[c][1]}
    /\ ({"S3Storage", "R2Storage"} \subseteq DOMAIN instance) =>
           instance["S3Storage"] # instance["R2Storage"]

\* both classes have been constructed, S3Storage more than once
C3_Witness ==
    /\ last.op = "__init__"
    /\ last.outcome = "return"
    /\ last.cls = "S3Storage"
    /\ objs[last.self].client[1].id = 3
    /\ "R2Storage" \in DOMAIN instance
    /\ objs[instance["R2Storage"][1]].client # <<>>

\* the credentials an object stores are the ones its client was built from
ClientMatchesFields(o) ==
    objs[o].client # <<>> =>
        /\ objs[o].client[1].aws_access_key_id = objs[o].access_key
        /\ objs[o].client[1].aws_secret_access_key = objs[o].secret_key
        /\ objs[o].cls = "R2Storage" =>
               objs[o].client[1].endpoint_url[2] = objs[o].account_id

\* C10 as stated: a constructor call that fails with the missing-credentials
\* error changes neither an object nor the singleton registry, and in every
\* state an object's stored credentials are those of its client.
C10_AsStated ==
    /\ [][(last'.op = "__init__" /\ last'.outcome = "ValueError") =>
              (objs' = objs /\ instance' = instance)]_vars
    /\ [](\A o \in 1..Len(objs) : ClientMatchesFields(o))

----------------------------------------------------------------------------
(* Claims about the storage operations (checked under Spec) *)

Wrapping == {"upload_file", "download_file", "list_files", "delete_file",
             "get_file_metadata"}

ErrorPrefix(op) ==
    CASE op = "upload_file" -> "Upload failed: "
      [] op = "download_file" -> "Download failed: "
      [] op = "list_files" -> "Listing failed: "
      [] op = "delete_file" -> "Deletion failed: "
      [] op = "get_file_metadata" -> "Failed to get metadata: "

\* C4 as stated: file_exists always returns, and returns true exactly when
\* head_object succeeded.
C4_AsStated ==
    last.op = "file_exists" =>
        /\ last.outcome = "return"
        /\ last.result = (last.response = "ok")

\* C5 as stated: whenever the SDK call of one of the five wrapping operations
\* fails, whatever the failure, the operation raises its own error kind (the
\* Exception carrying the operation's message prefix), never returns and never
\* lets the SDK's exception through.
C5_AsStated ==
    (last.op \in Wrapping /\ last.response \notin {"ok", "none"}) =>
        /\ last.outcome = "Exception"
        /\ last.message = ErrorPrefix(last.op)

\* C6: when the backend answers from its contents, file_exists called right
\* after an upload_file that returned for the same backend, bucket and key
\* returns true, and right after a delete_file that returned it returns false.
C6_ExistsAfterUploadOrDelete ==
    (/\ last.op = "file_exists"
     /\ last.sdk = "ok"
     /\ prev.op \in {"upload_file", "delete_file"}
     /\ prev.endpoint = last.endpoint
     /\ prev.bucket = last.bucket
     /\ prev.key = last.key) =>
        /\ last.outcome = "return"
        /\ last.result = (prev.op = "upload_file")

\* file_exists returned true right after an upload of the same locator, with
\* another object in the same bucket
C6_Witness ==
    /\ last.op = "file_exists"
    /\ last.sdk = "ok"
    /\ prev.op = "upload_file"
    /\ prev.endpoint = last.endpoint
    /\ prev.bucket = last.bucket
    /\ prev.key = last.key
    /\ last.result = TRUE
    /\ \E x \in store : x.endpoint = last.endpoint /\ x.key # last.key

\* C9 as stated, for every download_file call: when the directories of the
\* destination already exist the call raises nothing before the transfer; once
\* the transfer starts, the directory of the destination and all its ancestors
\* exist; without a local path the destination is the basename of the key and
\* no directory is created; a call that returns returns the destination, which
\* is then a file; a call whose transfer fails (missing object, transport
\* failure) raises the operation's own error and writes no file.
C9_AsStated ==
    [][(last'.op = "download_file") =>
          LET dest == IF last'.local = Absent THEN Basename(last'.key)
                      ELSE last'.local[1]
              needed == Ancestors(Node(Dirname(dest)))
          IN /\ needed \subseteq dirs => last'.response # "none"
             /\ last'.response # "none" => needed \subseteq dirs'
             /\ last'.local = Absent => dirs' = dirs
             /\ last'.outcome = "return" =>
                    /\ last'.result = dest
                    /\ Node(dest) \in files'
             /\ last'.response \notin {"ok", "none"} =>
                    /\ last'.outcome = "Exception"
                    /\ last'.message = "Download failed: "
                    /\ files' = files]_vars

----------------------------------------------------------------------------
(* Claims about upload results (checked under SpecUpload) *)

\* seg is the part of path after its last slash (the whole path without one)
IsFinalSegment(seg, path) ==
    /\ \A i \in 1..Len(seg) : seg[i] # "/"
    /\ Len(seg) <= Len(path)
    /\ SubSeq(path, Len(path) - Len(seg) + 1, Len(path)) = seg
    /\ Len(seg) < Len(path) => path[Len(path) - Len(seg)] = "/"

\* C7: an upload that returns returns (key, url): the key is the one given,
\* or the final segment of the local path when none was given; the object is
\* in the backend under (bucket, key); the url is s3://bucket/key on an
\* S3Storage client and r2://bucket/key on an R2Storage client.
C7_UploadResult ==
    (last.op = "upload_file" /\ last.outcome = "return") =>
        LET key == last.result[1]
            url == last.result[2]
        IN /\ last.key_arg # Absent => key = last.key_arg[1]
           /\ last.key_arg = Absent => IsFinalSegment(key, last.local)
           /\ [endpoint |-> last.endpoint, bucket |-> last.bucket, key |-> key]
                  \in store
           /\ last.cls = "S3Storage" =>
                  url = <<"s", "3", ":", "/", "/">> \o last.bucket \o <<"/">> \o key
           /\ last.cls = "R2Storage" =>
                  url = <<"r", "2", ":", "/", "/">> \o last.bucket \o <<"/">> \o key
           /\ last.cls \in ConcreteClasses

\* an upload without a key, from a path with a directory part, on the R2 client
C7_Witness ==
    /\ last.op = "upload_file"
    /\ last.outcome = "return"
    /\ last.cls = "R2Storage"
    /\ last.key_arg = Absent
    /\ last.local = <<"a", "/", "a", "a">>
    /\ last.result = <<<<"a", "a">>,
                       <<"r", "2", ":", "/", "/", "b", "/", "a", "a">>>>

====
